---- MODULE Spec2Model ----
(***************************************************************************)
(* Model of the search-react result components (SearchResultGroup,         *)
(* SearchResultGroupLayout, SearchResult, SearchResultState and the        *)
(* search result list item extensions) and of the Azure functions overview *)
(* widget.                                                                 *)
(*                                                                         *)
(* JavaScript values are modelled as follows:                              *)
(*   - an optional value (a prop or field that may be undefined) is a      *)
(*     sequence of length 0 (undefined) or 1 (the value);                  *)
(*   - a React node is a record with a "kind" field; null is NullNode;     *)
(*   - a string built by concatenation is the sequence of its pieces;      *)
(*   - a predicate over results is the set of results it returns true for; *)
(*   - an object whose identity matters (the query prop, compared by       *)
(*     reference in a dependency list) carries a "ref" field.              *)
(***************************************************************************)
EXTENDS Naturals, Sequences, FiniteSets, TLC

\* ------------------------------------------------------------------ bounds
MaxElements == 3   \* longest list of children handed to the extension hooks
MaxResults == 2    \* longest result list of a result set
MaxCalls == 3      \* most fetches one mounted data hook issues before the model stops re-rendering it
MaxRefs == 2       \* distinct query objects (identities) a parent may pass

\* ------------------------------------------------------------ JS optionals
None == <<>>
Some(v) == <<v>>
IsSome(o) == o # <<>>
Get(o) == o[1]
OrElse(o, d) == IF o = <<>> THEN d ELSE o[1]
Opt(S) == {None} \cup {Some(v) : v \in S}
SeqsUpTo(S, n) == UNION {[1..k -> S] : k \in 0..n}

\* ----------------------------------------------------------------- results
Result1 == [rank |-> 1, highlight |-> "h1",
            document |-> [location |-> "loc1", title |-> "doc1"], type |-> "techdocs"]
Result2 == [rank |-> 2, highlight |-> "h2",
            document |-> [location |-> "loc2", title |-> "doc2"], type |-> "catalog"]
Results == {Result1, Result2}
ResultLists == SeqsUpTo(Results, MaxResults)
ResultSets == {[results |-> l] : l \in ResultLists}
Errors == {"Error: search failed"}

\* AsyncState<SearchResultSet>: loading, error?, value?
AsyncStates == [loading : BOOLEAN, error : Opt(Errors), value : Opt(ResultSets)]

\* !value?.results?.length
NoResults(value) == value = None \/ Len(Get(value).results) = 0

NullNode == [kind |-> "null"]
Progress == [kind |-> "Progress"]
ResponseErrorPanel(error) ==
  [kind |-> "ResponseErrorPanel",
   title |-> "Error encountered while fetching search results", error |-> error]
EmptyState == [kind |-> "EmptyState", missing |-> "data", title |-> "Sorry, no results were found"]
CustomNoResults == [kind |-> "CustomNoResults"]

\* -------------------------------------------------------------- extensions
Components == {"ItemA", "ItemB"}
Predicates == SUBSET Results
AlwaysTrue == Results                      \* () => true
ElementProps == [onClick |-> "onClick", onKeyDown |-> "onKeyDown", rest |-> "rest"]

\* createSearchResultListItemExtension(options), as the element a use of the
\* returned extension puts among the children: the extension data attached
\* under SEARCH_RESULT_LIST_ITEM_EXTENSION, the predicate defaulted.
ExtensionOptions == [name : {"ext"}, component : Components, predicate : Opt(Predicates)]
createSearchResultListItemExtensionNoDefault(options) ==
  [valid |-> TRUE,
   data |-> Some([component |-> options.component, predicate |-> options.predicate]),
   props |-> ElementProps]
createSearchResultListItemExtension(options) ==
  [valid |-> TRUE,
   data |-> Some([component |-> options.component,
                  predicate |-> Some(OrElse(options.predicate, AlwaysTrue))]),
   props |-> ElementProps]

\* The React nodes a children list may hold: extension elements, elements
\* whose data was attached without a predicate, elements without extension
\* data, and nodes that are no elements (strings, null).
ExtensionElements == {createSearchResultListItemExtension(o) : o \in ExtensionOptions}
DataWithoutPredicate ==
  {[valid |-> TRUE, data |-> Some([component |-> c, predicate |-> None]), props |-> ElementProps] :
     c \in Components}
PlainElement == [valid |-> TRUE, data |-> None, props |-> ElementProps]
NotAnElement == [valid |-> FALSE, data |-> None, props |-> ElementProps]
Nodes == ExtensionElements \cup DataWithoutPredicate \cup {PlainElement, NotAnElement}
NodeLists == SeqsUpTo(Nodes, MaxElements)

\* <div role="button" ...>{createElement(component, {rank, highlight, result, ...rest})}</div>
ExtensionNode(element, component, result) ==
  [kind |-> "div", role |-> "button",
   onClick |-> element.props.onClick, onKeyDown |-> element.props.onKeyDown,
   child |-> [kind |-> component, rank |-> Some(result.rank),
              highlight |-> Some(result.highlight), result |-> result.document,
              rest |-> element.props.rest]]

\* The loop of findSearchResultListItemExtensionElement from element i on;
\* consulted lists the positions whose predicate was called.
RECURSIVE FindFrom(_, _, _, _)
FindFrom(elements, result, i, consulted) ==
  IF i > Len(elements) THEN [node |-> NullNode, at |-> 0, consulted |-> consulted]
  ELSE LET element == elements[i] IN
       IF ~element.valid THEN FindFrom(elements, result, i + 1, consulted)
       ELSE IF element.data = None THEN FindFrom(elements, result, i + 1, consulted)
       ELSE LET data == Get(element.data) IN
            IF data.predicate = None THEN FindFrom(elements, result, i + 1, consulted)
            ELSE IF result \notin Get(data.predicate)
                 THEN FindFrom(elements, result, i + 1, Append(consulted, i))
                 ELSE [node |-> ExtensionNode(element, data.component, result),
                       at |-> i, consulted |-> Append(consulted, i)]

\* A scan that keeps going after a match and so returns the last match.
RECURSIVE FindLastFrom(_, _, _, _, _)
FindLastFrom(elements, result, i, consulted, best) ==
  IF i > Len(elements) THEN [node |-> best.node, at |-> best.at, consulted |-> consulted]
  ELSE LET element == elements[i] IN
       IF ~element.valid \/ element.data = None
       THEN FindLastFrom(elements, result, i + 1, consulted, best)
       ELSE LET data == Get(element.data) IN
            IF data.predicate = None THEN FindLastFrom(elements, result, i + 1, consulted, best)
            ELSE IF result \notin Get(data.predicate)
                 THEN FindLastFrom(elements, result, i + 1, Append(consulted, i), best)
                 ELSE FindLastFrom(elements, result, i + 1, Append(consulted, i),
                                   [node |-> ExtensionNode(element, data.component, result), at |-> i])
findLastSearchResultListItemExtensionElement(elements, result) ==
  FindLastFrom(elements, result, 1, <<>>, [node |-> NullNode, at |-> 0])

findSearchResultListItemExtensionElement(elements, result) ==
  FindFrom(elements, result, 1, <<>>)

\* useSearchResultListItemExtensionElements(children): the children that
\* carry search result list item extension data, in order.
HasExtensionData(node) == node.valid /\ node.data # None
useSearchResultListItemExtensionElements(children) == SelectSeq(children, HasExtensionData)

DefaultResultListItem(rank, highlight, result) ==
  [kind |-> "DefaultResultListItem", rank |-> rank, highlight |-> highlight, result |-> result]

\* The callback useSearchResultListItemExtensionRenderer(children) returns,
\* applied to result.
NullableRenderer(children, result) ==
  findSearchResultListItemExtensionElement(
    useSearchResultListItemExtensionElements(children), result).node
useSearchResultListItemExtensionRenderer(children, result) ==
  LET element == findSearchResultListItemExtensionElement(
                   useSearchResultListItemExtensionElements(children), result).node
  IN IF element # NullNode THEN element
     ELSE DefaultResultListItem(Some(result.rank), Some(result.highlight), result.document)

\* ------------------------------------------------------------ render props
\* A renderResultItem function: the caller's own, or the extension renderer
\* over the children (useSearchResultListItemExtensionRenderer(children)).
CustomRender == [fn |-> "custom", children |-> <<>>]
ExtensionRender(children) == [fn |-> "extensions", children |-> children]
\* renderResultItem(value, index, array); the layout's default builds a
\* DefaultResultListItem from the document alone.
LayoutDefaultItem(value) ==
  [kind |-> "DefaultResultListItem", key |-> value.document.location,
   rank |-> None, highlight |-> None, result |-> value.document]
ApplyRender(render, value, index) ==
  IF render = None THEN LayoutDefaultItem(value)
  ELSE IF Get(render).fn = "custom" THEN [kind |-> "CustomItem", value |-> value, index |-> index]
  ELSE useSearchResultListItemExtensionRenderer(Get(render).children, value)

\* ------------------------------------------------- SearchResultGroupLayout
DefaultLink == [kind |-> "SeeAll"]
FilterOptionLists == {<<"lifecycle">>}
ListHeader(props) ==
  [icon |-> "icon", title |-> "title",
   addFilter |-> IsSome(props.filterOptions),
   menu |-> IF IsSome(props.filterOptions)
            THEN [i \in 1..Len(Get(props.filterOptions)) |->
                    [kind |-> "MenuItem", value |-> Get(props.filterOptions)[i]]]
            ELSE <<>>,
   \* filterFields?.map(filterField => renderFilterField?.(filterField) ?? null)
   filterFields |-> [i \in 1..Len(OrElse(props.filterFields, <<>>)) |-> NullNode],
   \* <Link to="/search" {...linkProps}>
   link |-> [to |-> OrElse(props.linkProps.to, <<"/search">>), content |-> DefaultLink]]
\* A body that walks the results from the last to the first.
ListBodyReversed(props) ==
  LET n == Len(OrElse(props.resultItems, <<>>)) IN
  IF n # 0
  THEN [kind |-> "items",
        items |-> [i \in 1..n |->
                     ApplyRender(props.renderResultItem, Get(props.resultItems)[n + 1 - i], i)],
        renderCalls |-> [i \in 1..n |-> <<Get(props.resultItems)[n + 1 - i], i>>]]
  ELSE [kind |-> "noResults",
        items |-> <<[kind |-> "ListItem",
                     child |-> OrElse(props.noResultsComponent, EmptyState)]>>,
        renderCalls |-> <<>>]

\* resultItems?.length ? resultItems.map(renderResultItem) : <ListItem>{noResultsComponent}</ListItem>;
\* renderCalls lists the (value, index) pairs renderResultItem was called with.
ListBody(props) ==
  IF IsSome(props.resultItems) /\ Len(Get(props.resultItems)) # 0
  THEN [kind |-> "items",
        items |-> [i \in 1..Len(Get(props.resultItems)) |->
                     ApplyRender(props.renderResultItem, Get(props.resultItems)[i], i)],
        renderCalls |-> [i \in 1..Len(Get(props.resultItems)) |->
                           <<Get(props.resultItems)[i], i>>]]
  ELSE [kind |-> "noResults",
        items |-> <<[kind |-> "ListItem",
                     child |-> OrElse(props.noResultsComponent, EmptyState)]>>,
        renderCalls |-> <<>>]
ListNode(props) == [kind |-> "List", header |-> ListHeader(props), body |-> ListBody(props)]

\* A layout whose loading branch falls through to the list.
SearchResultGroupLayoutNoLoading(props) == ListNode(props)

\* if (loading) return <Progress/>; then the error branch, which builds a
\* ResponseErrorPanel element as an expression statement and returns
\* nothing, so control falls through to the list whatever error is.
SearchResultGroupLayout(props) ==
  IF props.loading = Some(TRUE) THEN Progress
  ELSE ListNode(props)

\* ------------------------------------------------------------ qs.stringify
Terms == {"", "docs"}
TypeLists == {<<>>, <<"techdocs">>, <<"techdocs", "catalog">>}
FilterObjects == {<<>>, <<<<"kind", "api">>>>}       \* key/value pairs in key order
Cursors == {"cursor1"}
QueryContents == [term : Opt(Terms), types : Opt(TypeLists),
                  filters : Opt(FilterObjects), pageCursor : Opt(Cursors)]
Query(r, c) == [ref |-> r, term |-> c.term, types |-> c.types, filters |-> c.filters,
                pageCursor |-> c.pageCursor]

\* One "key=value" per defined scalar, one "key[]=v" per array element, one
\* "key[k]=v" per object entry (brackets percent-encoded); undefined values,
\* empty arrays and empty objects yield nothing.
ScalarPairs(key, o) == IF IsSome(o) THEN <<<<key, "=", Get(o)>>>> ELSE <<>>
ArrayPairs(key, o) ==
  IF IsSome(o) THEN [i \in 1..Len(Get(o)) |-> <<key, "%5B%5D", "=", Get(o)[i]>>] ELSE <<>>
ObjectPairs(key, o) ==
  IF IsSome(o)
  THEN [i \in 1..Len(Get(o)) |-> <<key, "%5B", Get(o)[i][1], "%5D", "=", Get(o)[i][2]>>]
  ELSE <<>>
RECURSIVE JoinAmp(_)
JoinAmp(pairs) ==
  IF Len(pairs) = 0 THEN <<>>
  ELSE IF Len(pairs) = 1 THEN pairs[1]
  ELSE pairs[1] \o <<"&">> \o JoinAmp(Tail(pairs))
qsStringify(obj) ==
  JoinAmp(ScalarPairs("query", obj.query) \o ArrayPairs("types", obj.types)
          \o ObjectPairs("filters", obj.filters) \o ScalarPairs("pageCursor", obj.pageCursor))

\* query?.term and its like: undefined when the query is.
Field(query, f) == IF query = None THEN None ELSE Get(query)[f]
ObjectKeys(o) == [i \in 1..Len(o) |-> o[i][1]]

\* ------------------------------------------------------- SearchResultGroup
\* const to = `/search?${qs.stringify({...}, { arrayFormat: 'brackets' })}`
GroupLinkTo(props) ==
  <<"/search?">> \o qsStringify([query |-> Field(props.query, "term"),
                                 types |-> Field(props.query, "types"),
                                 filters |-> Field(props.query, "filters"),
                                 pageCursor |-> Field(props.query, "pageCursor")])
\* linkProps={{ to, ...linkProps }}
GroupLinkPropsComputedWins(props) == [to |-> Some(GroupLinkTo(props))]
GroupLinkProps(props) == [to |-> Some(OrElse(props.linkProps.to, GroupLinkTo(props)))]
GroupLayoutProps(props, state) ==
  [loading |-> Some(state.loading),
   error |-> state.error,
   linkProps |-> GroupLinkProps(props),
   filterOptions |-> props.filterOptions,
   filterFields |-> Some(ObjectKeys(OrElse(Field(props.query, "filters"), <<>>))),
   resultItems |-> IF state.value = None THEN None ELSE Some(Get(state.value).results),
   renderResultItem |-> Some(OrElse(props.renderResultItem, ExtensionRender(props.children))),
   noResultsComponent |-> props.noResultsComponent]

\* A group that hides itself only when the value is present and empty.
SearchResultGroupStrict(props, state) ==
  IF state.value # None /\ NoResults(state.value) /\ props.disableRenderingWithNoResults = Some(TRUE)
  THEN NullNode
  ELSE SearchResultGroupLayout(GroupLayoutProps(props, state))

\* The child function SearchResultGroup hands to SearchResultState, applied
\* to the state it is called with.
SearchResultGroup(props, state) ==
  IF NoResults(state.value) /\ props.disableRenderingWithNoResults = Some(TRUE)
  THEN NullNode
  ELSE SearchResultGroupLayout(GroupLayoutProps(props, state))

\* --------------------------------------------------- SearchResultComponent
\* children is a render function of the result set, or a list of nodes.
FunctionChild == [isFunction |-> TRUE, nodes |-> <<>>]
NodeChildren(nodes) == [isFunction |-> FALSE, nodes |-> nodes]
ResultList(props, value) ==
  IF props.children.isFunction THEN [kind |-> "FunctionChild", value |-> value]
  ELSE [kind |-> "List",
        items |-> [i \in 1..Len(value.results) |->
                     useSearchResultListItemExtensionRenderer(props.children.nodes,
                                                              value.results[i])]]

\* A result component that looks at the error before the loading flag.
SearchResultComponentErrorFirst(props, state) ==
  IF IsSome(state.error) THEN ResponseErrorPanel(Get(state.error))
  ELSE IF state.loading THEN Progress
  ELSE IF NoResults(state.value) THEN OrElse(props.noResultsComponent, EmptyState)
  ELSE ResultList(props, Get(state.value))

\* The child function SearchResultComponent hands to SearchResultState,
\* applied to the state it is called with.
SearchResultComponent(props, state) ==
  IF state.loading THEN Progress
  ELSE IF IsSome(state.error) THEN ResponseErrorPanel(Get(state.error))
  ELSE IF NoResults(state.value) THEN OrElse(props.noResultsComponent, EmptyState)
  ELSE ResultList(props, Get(state.value))

\* ------------------------------------------------------- SearchResultState
\* query ? <SearchResultApi query={query}> : <SearchResultContext>
SearchResultStateAlwaysContext(query) == "SearchResultContext"
SearchResultState(query) ==
  IF IsSome(query) THEN "SearchResultApi" ELSE "SearchResultContext"

\* An instance of the useAsync hook inside SearchResultApi: the dependency
\* list of its last render, its state, the id of its last call, and the
\* calls whose promise has not settled.
InitialAsyncState == [loading |-> TRUE, error |-> None, value |-> None]
Unmounted ==
  [mounted |-> FALSE, deps |-> None, state |-> InitialAsyncState, calls |-> 0, pending |-> {}]
IssueCall(hook, query) ==
  [mounted |-> TRUE, deps |-> Some(query),
   state |-> [hook.state EXCEPT !.loading = TRUE],
   calls |-> hook.calls + 1, pending |-> hook.pending \cup {hook.calls + 1}]

\* A hook without a dependency list: it calls the search api on every render.
SearchResultApiNoDeps(hook, query) == IssueCall(hook, query)

\* useAsync(() => searchApi.query(...), [query]): the hook after a render of
\* SearchResultApi with this query and the effect that follows it. The query
\* is compared with the last one by identity.
SearchResultApi(hook, query) ==
  IF ~hook.mounted \/ hook.deps # Some(query) THEN IssueCall(hook, query) ELSE hook

\* The promise of call id settles; only the last call's outcome is kept.
Settle(hook, id, state) ==
  [hook EXCEPT !.pending = @ \ {id},
               !.state = IF id = hook.calls THEN state ELSE @]

\* SearchResultContext: children(useSearch().result)
SearchResultContext(context) == context

\* ------------------------------------------ the child render function
\* A child function is modelled by its name; what it returns is determined
\* by the state it is called with. A render records the arguments of every
\* call of the child function and the node the component returns.
ChildFunctions == {"describe", "empty"}
ApplyChild(child, state) ==
  IF child = "empty" THEN NullNode
  ELSE [kind |-> "Described", loading |-> state.loading, error |-> state.error,
        value |-> state.value]
Rendering(child, state) == [args |-> <<state>>, node |-> ApplyChild(child, state)]

\* const state = useSearch().result; return children(state)
SearchResultContextChildren(context, child) == Rendering(child, SearchResultContext(context))

\* A component that withholds the previous value while a fetch is loading.
SearchResultApiChildrenHideStale(state, child) ==
  Rendering(child, [state EXCEPT !.value = IF state.loading THEN None ELSE @])

\* const state = useAsync(...); return children(state), for the state the
\* hook returns in this render.
SearchResultApiChildren(state, child) == Rendering(child, state)

\* SearchResultState hands its children to the component it picks.
SearchResultStateChildren(query, state, context, child) ==
  IF SearchResultState(query) = "SearchResultApi"
  THEN SearchResultApiChildren(state, child)
  ELSE SearchResultContextChildren(context, child)

\* ----------------------------------------------------- Azure functions widget
FunctionNames == {"fnA", "fnB"}
FunctionLists == {<<>>, <<"function1">>}
\* annotations: undefined, or the value under AZURE_FUNCTIONS_ANNOTATION
\* (undefined when the key is missing).
Entities == Opt([annotations : Opt(Opt(FunctionNames \cup {""}))])
\* entity?.metadata.annotations?.[AZURE_FUNCTIONS_ANNOTATION]
isAzureFunctionsAvailable(entity) ==
  IF entity = None THEN None
  ELSE IF Get(entity).annotations = None THEN None
  ELSE Get(Get(entity).annotations)
Truthy(o) == IsSome(o) /\ Get(o) # ""

\* useServiceEntityAnnotations(entity).functionsName
useServiceEntityAnnotations(entity) == isAzureFunctionsAvailable(entity)

InitialFunctionsState == [loading |-> TRUE, error |-> None, data |-> None]
UnmountedFunctions ==
  [mounted |-> FALSE, deps |-> None, state |-> InitialFunctionsState, calls |-> 0, pending |-> {}]
\* useFunctions({ functionsName }): the hook after a render and its effect.
useFunctions(hook, functionsName) ==
  IF ~hook.mounted \/ hook.deps # Some(functionsName) THEN IssueCall(hook, functionsName) ELSE hook

MissingAnnotationEmptyState == [kind |-> "MissingAnnotationEmptyState"]
\* <OverviewComponent data={functionsData.data ?? []} loading={functionsData.loading}/>
AzureFunctionsOverview(functionsData) ==
  [kind |-> "OverviewComponent", data |-> OrElse(functionsData.data, <<>>),
   loading |-> functionsData.loading]
\* A widget that only asks whether the annotation is defined.
AzureFunctionsOverviewWidgetDefinedOnly(entity) ==
  IF isAzureFunctionsAvailable(entity) = None THEN "MissingAnnotationEmptyState"
  ELSE "AzureFunctionsOverview"

\* if (!isAzureFunctionsAvailable(entity)) return <MissingAnnotationEmptyState/>
AzureFunctionsOverviewWidget(entity) ==
  IF ~Truthy(isAzureFunctionsAvailable(entity)) THEN "MissingAnnotationEmptyState"
  ELSE "AzureFunctionsOverview"

\* ------------------------------------------------------------------- state
VARIABLES
  page,      \* the page that is mounted: "none", "search" or "entity"
  props,     \* the props SearchResultGroup was last rendered with (optional)
  api,       \* the useAsync instance of SearchResultApi
  context,   \* the result state of the ambient search context
  changes,   \* input changes the mounted SearchResultApi has seen, its mount included
  entity,    \* the entity the widget was last rendered with
  fn,        \* the useFunctions instance of AzureFunctionsOverview
  fnChanges, \* input changes the mounted AzureFunctionsOverview has seen
  view,      \* what the mounted page last rendered
  io,        \* what the last step did: its event, the source read, whether a fetch was issued
  call,      \* a direct call of a component or function: its name and arguments
  out        \* the value that call returned (optional)

vars == <<page, props, api, context, changes, entity, fn, fnChanges, view, io, call, out>>
search == <<props, api, context, changes>>
azure == <<entity, fn, fnChanges>>
calls == <<call, out>>

InitialContext == InitialAsyncState
NoIo == [event |-> "none", source |-> "none", requested |-> FALSE]

InitApp ==
  /\ page = "none" /\ props = None /\ api = Unmounted /\ context = InitialContext
  /\ changes = 0 /\ entity = None /\ fn = UnmountedFunctions /\ fnChanges = 0
  /\ view = NullNode /\ io = NoIo

Init == InitApp /\ call = [fn |-> "none"] /\ out = None

\* The props a parent passes to SearchResultGroup in the running app.
SampleChildren ==
  <<createSearchResultListItemExtension(
      [name |-> "ext", component |-> "ItemA", predicate |-> Some({Result1})])>>
AppQueryContents ==
  {[term |-> None, types |-> None, filters |-> None, pageCursor |-> None],
   [term |-> Some("docs"), types |-> Some(<<"techdocs">>), filters |-> None, pageCursor |-> None]}
AppQueries == {Query(r, c) : r \in 1..MaxRefs, c \in AppQueryContents}
AppGroupProps ==
  [query : Opt(AppQueries), children : {SampleChildren},
   linkProps : [to : Opt({<<"/custom">>})],
   disableRenderingWithNoResults : {None, Some(TRUE)},
   renderResultItem : {None}, noResultsComponent : {None}, filterOptions : {None}]
AppResultSets ==
  {[results |-> <<>>], [results |-> <<Result1>>], [results |-> <<Result2, Result1>>]}
ContextStates ==
  {InitialContext,
   [loading |-> FALSE, error |-> Some("Error: search failed"), value |-> None],
   [loading |-> FALSE, error |-> None, value |-> Some([results |-> <<>>])],
   [loading |-> FALSE, error |-> None, value |-> Some([results |-> <<Result1>>])],
   [loading |-> TRUE, error |-> None, value |-> Some([results |-> <<Result1>>])]}

\* The parent renders SearchResultGroup with newprops: SearchResultState
\* picks the source, SearchResultApi runs its hook and effect or
\* SearchResultContext reads the context, and the child function renders.
RenderGroup ==
  \E newprops \in AppGroupProps :
    LET before == IF page = "search" THEN api ELSE Unmounted
        ctx == IF page = "search" THEN context ELSE InitialContext
        source == SearchResultState(newprops.query)
        after == IF source = "SearchResultApi"
                 THEN SearchResultApi(before, Get(newprops.query)) ELSE Unmounted
        changed == ~before.mounted \/ props = None \/ Get(props).query # newprops.query
    IN /\ after.calls <= MaxCalls
       /\ page' = "search"
       /\ props' = Some(newprops)
       /\ api' = after
       /\ context' = ctx
       /\ changes' = IF source # "SearchResultApi" THEN 0
                     ELSE IF ~before.mounted THEN 1
                     ELSE IF changed THEN changes + 1 ELSE changes
       /\ view' = IF source = "SearchResultApi"
                  THEN SearchResultGroup(newprops, after.state)
                  ELSE SearchResultGroup(newprops, SearchResultContext(ctx))
       /\ io' = [event |-> IF page # "search" THEN "mount"
                           ELSE IF changed THEN "input-change" ELSE "re-render",
                 source |-> source,
                 requested |-> after.calls > before.calls]
       /\ entity' = None /\ fn' = UnmountedFunctions /\ fnChanges' = 0
       /\ UNCHANGED calls

\* The search api answers call id with a result set; SearchResultApi
\* re-renders with the new state.
ApiResolve ==
  \E id \in api.pending, value \in AppResultSets :
    LET after == Settle(api, id, [loading |-> FALSE, error |-> None, value |-> Some(value)])
    IN /\ page = "search"
       /\ api' = after
       /\ view' = SearchResultGroup(Get(props), after.state)
       /\ io' = [event |-> "resolved", source |-> "SearchResultApi", requested |-> FALSE]
       /\ UNCHANGED <<page, props, context, changes, azure, calls>>

\* The search api fails call id.
ApiReject ==
  \E id \in api.pending, error \in Errors :
    LET after == Settle(api, id, [loading |-> FALSE, error |-> Some(error), value |-> None])
    IN /\ page = "search"
       /\ api' = after
       /\ view' = SearchResultGroup(Get(props), after.state)
       /\ io' = [event |-> "rejected", source |-> "SearchResultApi", requested |-> FALSE]
       /\ UNCHANGED <<page, props, context, changes, azure, calls>>

\* The search context's result changes; SearchResultContext, when it is
\* the one mounted, re-renders with it.
ContextUpdate ==
  \E state \in ContextStates :
    /\ page = "search"
    /\ state # context
    /\ context' = state
    /\ IF SearchResultState(Get(props).query) = "SearchResultContext"
       THEN /\ view' = SearchResultGroup(Get(props), SearchResultContext(state))
            /\ io' = [event |-> "context", source |-> "SearchResultContext", requested |-> FALSE]
       ELSE UNCHANGED <<view, io>>
    /\ UNCHANGED <<page, props, api, changes, azure, calls>>

\* The entity page renders AzureFunctionsOverviewWidget with this entity.
RenderWidget ==
  \E e \in Entities :
    LET before == IF page = "entity" THEN fn ELSE UnmountedFunctions
        shown == AzureFunctionsOverviewWidget(e)
        after == IF shown = "AzureFunctionsOverview"
                 THEN useFunctions(before, useServiceEntityAnnotations(e))
                 ELSE UnmountedFunctions
        changed == ~before.mounted
                   \/ useServiceEntityAnnotations(entity) # useServiceEntityAnnotations(e)
    IN /\ after.calls <= MaxCalls
       /\ page' = "entity"
       /\ entity' = e
       /\ fn' = after
       /\ fnChanges' = IF shown # "AzureFunctionsOverview" THEN 0
                       ELSE IF ~before.mounted THEN 1
                       ELSE IF changed THEN fnChanges + 1 ELSE fnChanges
       /\ view' = IF shown = "AzureFunctionsOverview"
                  THEN AzureFunctionsOverview(after.state) ELSE MissingAnnotationEmptyState
       /\ io' = [event |-> IF page # "entity" THEN "mount"
                           ELSE IF changed THEN "input-change" ELSE "re-render",
                 source |-> shown,
                 requested |-> after.calls > before.calls]
       /\ props' = None /\ api' = Unmounted /\ context' = InitialContext /\ changes' = 0
       /\ UNCHANGED calls

\* The functions api answers call id with data, or fails it.
FunctionsSettle ==
  \E id \in fn.pending,
     state \in {[loading |-> FALSE, error |-> None, data |-> Some(d)] : d \in FunctionLists}
        \cup {[loading |-> FALSE, error |-> Some(e), data |-> None] : e \in Errors} :
    LET after == Settle(fn, id, state)
    IN /\ page = "entity"
       /\ fn' = after
       /\ view' = AzureFunctionsOverview(after.state)
       /\ io' = [event |-> IF state.error = None THEN "resolved" ELSE "rejected",
                 source |-> "AzureFunctionsOverview", requested |-> FALSE]
       /\ UNCHANGED <<page, entity, fnChanges, search, calls>>

Next ==
  \/ RenderGroup
  \/ ApiResolve
  \/ ApiReject
  \/ ContextUpdate
  \/ RenderWidget
  \/ FunctionsSettle

Spec == Init /\ [][Next]_vars

\* ------------------------------------------------------------ direct calls
\* The components and functions called directly, once each, on arguments
\* drawn from bounded sets; the app is not mounted.
FindInputs == [fn : {"find"}, elements : NodeLists, result : Results]
RendererInputs == [fn : {"renderer"}, children : NodeLists, result : Results]
\* An extension is created and placed among other children.
DispatchInputs ==
  [fn : {"dispatch"}, options : ExtensionOptions, before : SeqsUpTo(Nodes, 1),
   after : SeqsUpTo(Nodes, 1), result : Results]
LayoutProps ==
  [loading : Opt(BOOLEAN), error : Opt(Errors), linkProps : [to : Opt({<<"/custom">>})],
   filterOptions : Opt(FilterOptionLists), filterFields : {None, Some(<<"kind">>)},
   resultItems : Opt(ResultLists),
   renderResultItem : {None, Some(CustomRender), Some(ExtensionRender(SampleChildren))},
   noResultsComponent : Opt({CustomNoResults})]
LayoutInputs == [fn : {"layout"}, props : LayoutProps]
GroupProps ==
  [query : Opt({Query(1, c) : c \in QueryContents}), children : {SampleChildren},
   linkProps : [to : Opt({<<"/custom">>})],
   disableRenderingWithNoResults : Opt(BOOLEAN),
   renderResultItem : {None, Some(CustomRender)},
   noResultsComponent : {None}, filterOptions : {None}]
GroupInputs == [fn : {"group"}, props : GroupProps, state : AsyncStates]
SearchResultProps ==
  [children : {FunctionChild, NodeChildren(<<>>), NodeChildren(SampleChildren)},
   noResultsComponent : Opt({CustomNoResults})]
SearchResultInputs == [fn : {"searchResult"}, props : SearchResultProps, state : AsyncStates]

StateInputs ==
  [fn : {"state"}, query : Opt({Query(1, c) : c \in AppQueryContents}),
   state : AsyncStates, context : AsyncStates, child : ChildFunctions]

InitCalls ==
  /\ InitApp
  /\ call \in FindInputs \cup RendererInputs \cup DispatchInputs \cup LayoutInputs
              \cup GroupInputs \cup SearchResultInputs \cup StateInputs
  /\ out = None

Return(value) == out' = Some(value) /\ UNCHANGED <<call, page, search, azure, view, io>>

CallFind ==
  /\ call.fn = "find" /\ out = None
  /\ Return(findSearchResultListItemExtensionElement(call.elements, call.result))

CallRenderer ==
  /\ call.fn = "renderer" /\ out = None
  /\ Return([node |-> useSearchResultListItemExtensionRenderer(call.children, call.result),
             elements |-> useSearchResultListItemExtensionElements(call.children)])

CallDispatch ==
  /\ call.fn = "dispatch" /\ out = None
  /\ LET element == createSearchResultListItemExtension(call.options)
     IN Return([element |-> element,
                found |-> findSearchResultListItemExtensionElement(
                            call.before \o <<element>> \o call.after, call.result)])

CallLayout ==
  /\ call.fn = "layout" /\ out = None
  /\ Return(SearchResultGroupLayout(call.props))

CallGroup ==
  /\ call.fn = "group" /\ out = None
  /\ Return(SearchResultGroup(call.props, call.state))

CallSearchResult ==
  /\ call.fn = "searchResult" /\ out = None
  /\ Return(SearchResultComponent(call.props, call.state))

CallState ==
  /\ call.fn = "state" /\ out = None
  /\ Return(SearchResultStateChildren(call.query, call.state, call.context, call.child))

NextCalls ==
  \/ CallFind
  \/ CallRenderer
  \/ CallDispatch
  \/ CallLayout
  \/ CallGroup
  \/ CallSearchResult
  \/ CallState

SpecCalls == InitCalls /\ [][NextCalls]_vars

\* ------------------------------------------------------------------ claims
\* What the claims speak of: a node accepts a result when it is a valid
\* element, carries extension data and its predicate returns true.
Accepts(node, result) ==
  /\ node.valid
  /\ node.data # None
  /\ Get(node.data).predicate # None
  /\ result \in Get(Get(node.data).predicate)
\* The position of the first accepting node, 0 when there is none.
FirstAccepting(nodes, result) ==
  IF \E i \in 1..Len(nodes) : Accepts(nodes[i], result)
  THEN CHOOSE i \in 1..Len(nodes) :
         Accepts(nodes[i], result) /\ \A j \in 1..(i - 1) : ~Accepts(nodes[j], result)
  ELSE 0
Rendered(node, result) == ExtensionNode(node, Get(node.data).component, result)
Returned(name) == call.fn = name /\ out # None
Elems(s) == {s[i] : i \in 1..Len(s)}

\* C1: findSearchResultListItemExtensionElement renders the component of the
\* first element, in list order, that is a valid element with extension data
\* whose predicate accepts the result; it consults no predicate of a node
\* that is no valid element or has no data, none after the match, and
\* returns null when nothing matches.
C1_FirstMatchDispatch ==
  Returned("find") =>
    LET first == FirstAccepting(call.elements, call.result)
        found == Get(out)
    IN /\ found.at = first
       /\ IF first = 0 THEN found.node = NullNode
          ELSE found.node = Rendered(call.elements[first], call.result)
       /\ \A j \in Elems(found.consulted) :
            /\ call.elements[j].valid /\ call.elements[j].data # None
            /\ first # 0 => j <= first
C1_Witness ==
  /\ Returned("find")
  /\ Len(call.elements) = 3
  /\ ~call.elements[1].valid
  /\ Accepts(call.elements[2], call.result)
  /\ Accepts(call.elements[3], call.result)
  /\ Get(call.elements[2].data).component # Get(call.elements[3].data).component
  /\ Get(out).at = 2
  /\ Get(out).consulted = <<2>>

\* C2: SearchResultState has one source per render: with a query prop the
\* results come from the search api (a call was issued for that query, the
\* render shows the hook's state whatever the context holds); without one
\* they come from the search context and no api call exists.
C2_OneSourcePerRender ==
  page = "search" =>
    IF IsSome(Get(props).query)
    THEN /\ io.source = "SearchResultApi"
         /\ api.mounted /\ api.calls >= 1 /\ api.deps = Get(props).query
         /\ view = SearchResultGroup(Get(props), api.state)
    ELSE /\ io.source = "SearchResultContext"
         /\ ~io.requested /\ ~api.mounted /\ api.calls = 0 /\ api.pending = {}
         /\ view = SearchResultGroup(Get(props), context)
C2_Witness ==
  /\ page = "search"
  /\ IsSome(Get(props).query)
  /\ io.event = "resolved"
  /\ api.state.value = Some([results |-> <<Result2, Result1>>])
  /\ context.value = Some([results |-> <<Result1>>])
  /\ view.kind = "List" /\ Len(view.body.items) = 2

\* C3: a mounted data hook has issued at most one fetch per input change
\* (its mount being the first): a re-render with the same query issues none,
\* and neither does the settling of a fetch, failed or not.
C3_OneFetchPerInputChange ==
  /\ page = "search" => api.calls <= changes
  /\ page = "entity" => fn.calls <= fnChanges
  /\ io.event \in {"re-render", "resolved", "rejected", "context"} => ~io.requested
C3_Witness ==
  /\ page = "search"
  /\ io.event = "re-render"
  /\ api.mounted /\ api.calls = 1 /\ api.pending = {}
  /\ IsSome(api.state.error) /\ ~api.state.loading

\* C4: given a defined error and no loading, SearchResultGroupLayout renders
\* the ResponseErrorPanel carrying that error instead of the list.
C4_ErrorPanel ==
  (Returned("layout") /\ IsSome(call.props.error) /\ call.props.loading # Some(TRUE)) =>
    Get(out) = ResponseErrorPanel(Get(call.props.error))
\* C4, its consequence: a failed fetch shows in SearchResultGroup as the
\* error panel.
C4_FailedFetchSurfaced ==
  (page = "search" /\ io.event = "rejected" /\ IsSome(api.state.error) /\ ~api.state.loading
   /\ Get(props).disableRenderingWithNoResults = None) =>
    view = ResponseErrorPanel(Get(api.state.error))

\* C5: SearchResultComponent renders one variant by the precedence loading,
\* error, empty, results: progress when loading; else the error panel when
\* error is defined; else noResultsComponent (default: the empty state) when
\* the value is absent or has no results; else the results, through the
\* function child or as the list of extension-rendered items.
C5_VariantPrecedence ==
  Returned("searchResult") =>
    LET s == call.state
        p == call.props
        o == Get(out)
    IN IF s.loading THEN o = Progress
       ELSE IF IsSome(s.error) THEN o = ResponseErrorPanel(Get(s.error))
       ELSE IF s.value = None \/ Len(Get(s.value).results) = 0
            THEN o = OrElse(p.noResultsComponent, EmptyState)
       ELSE IF p.children.isFunction
            THEN o = [kind |-> "FunctionChild", value |-> Get(s.value)]
       ELSE /\ o.kind = "List"
            /\ Len(o.items) = Len(Get(s.value).results)
            /\ \A i \in 1..Len(o.items) :
                 o.items[i] = useSearchResultListItemExtensionRenderer(
                                p.children.nodes, Get(s.value).results[i])
C5_Witness ==
  /\ Returned("searchResult")
  /\ call.state.loading
  /\ IsSome(call.state.error)
  /\ IsSome(call.state.value) /\ Len(Get(call.state.value).results) > 0
  /\ Get(out) = Progress

\* C6: the renderer of useSearchResultListItemExtensionRenderer never
\* returns null: it renders the first accepting extension among the
\* children, and the DefaultResultListItem of the result's rank, highlight
\* and document when there is none.
C6_RendererTotal ==
  Returned("renderer") =>
    LET first == FirstAccepting(call.children, call.result)
        node == Get(out).node
    IN /\ node # NullNode
       /\ IF first # 0 THEN node = Rendered(call.children[first], call.result)
          ELSE node = [kind |-> "DefaultResultListItem",
                       rank |-> Some(call.result.rank),
                       highlight |-> Some(call.result.highlight),
                       result |-> call.result.document]
C6_Witness ==
  /\ Returned("renderer")
  /\ Len(call.children) = 2
  /\ \A i \in 1..2 : call.children[i] \in ExtensionElements
  /\ FirstAccepting(call.children, call.result) = 0
  /\ Get(out).node.kind = "DefaultResultListItem"

\* C7: an extension created without a predicate accepts every result, so it
\* renders every result that reaches it and nothing listed after it is
\* used; one created with a predicate renders only results that predicate
\* accepts.
C7_DefaultPredicate ==
  Returned("dispatch") =>
    LET at == Len(call.before) + 1
        reaches == FirstAccepting(call.before, call.result) = 0
        o == Get(out)
    IN IF call.options.predicate = None
       THEN /\ \A r \in Results : Accepts(o.element, r)
            /\ reaches => (o.found.at = at /\ o.found.node = Rendered(o.element, call.result))
            /\ o.found.at <= at
            /\ \A j \in Elems(o.found.consulted) : j <= at
       ELSE /\ o.found.at = at => call.result \in Get(call.options.predicate)
            /\ (reaches /\ call.result \in Get(call.options.predicate)) => o.found.at = at
C7_Witness ==
  /\ Returned("dispatch")
  /\ call.options.predicate = None
  /\ Len(call.before) = 1 /\ call.before[1] \in ExtensionElements
  /\ Len(call.after) = 1 /\ Accepts(call.after[1], call.result)
  /\ Get(out).found.at = 2

\* C8: with loading set to true SearchResultGroupLayout renders the
\* progress alone, whatever error and resultItems are.
C8_LoadingOnlyProgress ==
  (Returned("layout") /\ call.props.loading = Some(TRUE)) => Get(out) = Progress
C8_Witness ==
  /\ Returned("layout")
  /\ call.props.loading = Some(TRUE)
  /\ IsSome(call.props.error)
  /\ IsSome(call.props.resultItems) /\ Len(Get(call.props.resultItems)) = 2
  /\ Get(out) = Progress

\* C9: SearchResultGroup renders nothing exactly when
\* disableRenderingWithNoResults is set and the state's value is absent or
\* has no results; otherwise it renders the group layout given the state's
\* loading, error and results.
C9_HiddenIffDisabledAndEmpty ==
  Returned("group") =>
    LET s == call.state
        p == call.props
        empty == s.value = None \/ Len(Get(s.value).results) = 0
        hidden == p.disableRenderingWithNoResults = Some(TRUE) /\ empty
    IN /\ Get(out) = NullNode <=> hidden
       /\ ~hidden =>
            Get(out) = SearchResultGroupLayout(
                         [GroupLayoutProps(p, s) EXCEPT
                            !.loading = Some(s.loading),
                            !.error = s.error,
                            !.resultItems = IF s.value = None THEN None
                                            ELSE Some(Get(s.value).results)])
C9_Witness ==
  /\ Returned("group")
  /\ call.props.disableRenderingWithNoResults = Some(TRUE)
  /\ call.state.loading /\ call.state.value = None
  /\ Get(out) = NullNode

\* C10: the layout links to "/search" unless linkProps supplies "to"; the
\* group links to "/search?" followed by the query's term (as query), types,
\* filters and pageCursor serialized with absent fields left out, unless the
\* caller's linkProps supplies "to", which then wins.
C10_LinkTarget ==
  /\ (Returned("layout") /\ Get(out).kind = "List") =>
       Get(out).header.link.to = IF IsSome(call.props.linkProps.to)
                                 THEN Get(call.props.linkProps.to) ELSE <<"/search">>
  /\ (Returned("group") /\ Get(out).kind = "List") =>
       LET to == Get(out).header.link.to
           q == call.props.query
       IN IF IsSome(call.props.linkProps.to) THEN to = Get(call.props.linkProps.to)
          ELSE /\ to = <<"/search?">> \o qsStringify(
                         [query |-> Field(q, "term"), types |-> Field(q, "types"),
                          filters |-> Field(q, "filters"),
                          pageCursor |-> Field(q, "pageCursor")])
               /\ Field(q, "term") = None => "query" \notin Elems(to)
               /\ Field(q, "term") # None => "query" \in Elems(to)
               /\ Field(q, "types") = None => "types" \notin Elems(to)
               /\ Field(q, "filters") = None => "filters" \notin Elems(to)
               /\ Field(q, "pageCursor") = None <=> "pageCursor" \notin Elems(to)
C10_Witness ==
  /\ Returned("group")
  /\ call.props.linkProps.to = None
  /\ Get(out).kind = "List"
  /\ Get(out).header.link.to =
       <<"/search?", "query", "=", "docs", "&", "types", "%5B%5D", "=", "techdocs", "&",
         "types", "%5B%5D", "=", "catalog", "&", "filters", "%5B", "kind", "%5D", "=", "api">>

\* C11: AzureFunctionsOverviewWidget renders the overview, and with it the
\* function fetch, only for an entity with a non-empty Azure functions
\* annotation; for an absent entity, absent annotations, or a missing or
\* empty annotation it renders the missing-annotation empty state, and no
\* fetch has been issued or is pending.
HasAnnotation(e) ==
  /\ e # None
  /\ Get(e).annotations # None
  /\ Get(Get(e).annotations) # None
  /\ Get(Get(Get(e).annotations)) # ""
C11_FetchOnlyWithAnnotation ==
  page = "entity" =>
    IF HasAnnotation(entity)
    THEN /\ view.kind = "OverviewComponent"
         /\ fn.mounted /\ fn.calls >= 1
         /\ fn.deps = Some(Get(Get(entity).annotations))
    ELSE /\ view = MissingAnnotationEmptyState
         /\ ~fn.mounted /\ fn.calls = 0 /\ fn.pending = {}
         /\ ~io.requested
C11_Witness ==
  /\ page = "entity"
  /\ io.event = "input-change"
  /\ entity = Some([annotations |-> Some(Some(""))])
  /\ view = MissingAnnotationEmptyState
  /\ fn.calls = 0

\* C12: SearchResultState, SearchResultApi and SearchResultContext call the
\* child function once per render, with the asynchronous state of their
\* source as it is (loading, error and value unaltered), and return exactly
\* what the child function returns.
C12_StatePassthrough ==
  Returned("state") =>
    LET source == IF IsSome(call.query) THEN call.state ELSE call.context
        o == Get(out)
    IN /\ Len(o.args) = 1
       /\ o.args[1].loading = source.loading
       /\ o.args[1].error = source.error
       /\ o.args[1].value = source.value
       /\ o.node = ApplyChild(call.child, source)
C12_Witness ==
  /\ Returned("state")
  /\ IsSome(call.query)
  /\ call.child = "describe"
  /\ call.state.loading /\ IsSome(call.state.error)
  /\ call.state.value = Some([results |-> <<Result2, Result1>>])
  /\ call.context # call.state
  /\ Get(out).node.value = Some([results |-> <<Result2, Result1>>])
  /\ Get(out).node.loading

\* What C13 expects of a list of rendered items: one per result, in the
\* order of the results.
LayoutItemsOf(p, o) ==
  LET results == Get(p.resultItems) IN
  /\ o.kind = "List" /\ o.body.kind = "items"
  /\ Len(o.body.items) = Len(results)
  /\ \A i \in 1..Len(results) :
       /\ o.body.items[i] = ApplyRender(p.renderResultItem, results[i], i)
       /\ o.body.renderCalls[i] = <<results[i], i>>
  /\ Len(o.body.renderCalls) = Len(results)
LayoutNoResultsOf(p, o) ==
  /\ o.kind = "List" /\ o.body.kind = "noResults"
  /\ o.body.items = <<[kind |-> "ListItem",
                       child |-> IF IsSome(p.noResultsComponent)
                                 THEN Get(p.noResultsComponent) ELSE EmptyState]>>
  /\ o.body.renderCalls = <<>>
SearchResultItemsOf(p, value, o) ==
  /\ o.kind = "List"
  /\ Len(o.items) = Len(value.results)
  /\ \A i \in 1..Len(value.results) :
       o.items[i] = useSearchResultListItemExtensionRenderer(p.children.nodes,
                                                             value.results[i])
NonEmpty(o) == IsSome(o) /\ Len(Get(o)) > 0

====
